---- MODULE Spec2Model ----
(***************************************************************************)
(* A model of autoflap's Automaton (automaton.py), State (state.py) and    *)
(* Transition (transition.py).                                             *)
(*                                                                         *)
(* State objects are modelled as heap cells: an object identifier carries  *)
(* an immutable name and a mutable is_final flag.  Python compares State   *)
(* objects by identity (State defines no __eq__) and names by text, so the *)
(* model keeps the two apart: `states` holds identifiers, name lookups go  *)
(* through `name`.                                                         *)
(***************************************************************************)
EXTENDS Integers, Sequences, FiniteSets, TLC

VARIABLES
    states,         \* Automaton.__states: list of State objects (identifiers)
    transitions,    \* Automaton.__transitions: list of Transition objects
    initial_state,  \* Automaton.__initial_state: a State object or NoState
    name,           \* State.__name of every object; "" for an unallocated cell
    is_final,       \* State.__is_final of every object
    last            \* the call just made: operation and outcome

vars == <<states, transitions, initial_state, name, is_final, last>>

----------------------------------------------------------------------------
(* Bounds *)

\* The caller builds by hand (State, add_state, add_transition) while the
\* states, the transitions and the State objects of its own number fewer.
MaxSize == 3
\* the longest table handed to parse_csv has this many data rows
MaxRows == 4
\* the longest row the removal of the two columns is applied to
MaxCells == 4

\* The identifiers of State objects.  add_state always makes a new object
\* and the caller's own objects never become elements, so the two kinds of
\* object draw their identifiers from two ranges.
MemberIds == 1..(IF MaxSize > MaxRows THEN MaxSize ELSE MaxRows)
ForeignIds == 101..(100 + MaxSize)
Ids == MemberIds \cup ForeignIds

----------------------------------------------------------------------------
(* Python values *)

\* None where a State object is expected, and the result of a failed lookup
NoState == 0
\* a value that is not an instance of State
NotAState == -1
\* None where a text is expected (the stored empty condition)
None == "None"
\* no error was raised
OK == "OK"

Min(S) == CHOOSE m \in S : \A o \in S : m <= o
Range(s) == {s[k] : k \in 1..Len(s)}

\* the element of a set of one element: Only({e(x) : x \in {v}}) is e of
\* the value v, computed once
Only(S) == CHOOSE v \in S : TRUE

\* the State objects that exist
Live(nm) == {i \in Ids : nm[i] # ""}
\* the objects that exist and are not elements of the state collection
Foreign(sts, nm) == Live(nm) \ Range(sts)
\* a cell for a new object
FreshId(nm, ids) == Min(ids \ Live(nm))

----------------------------------------------------------------------------
(* Lookups *)

\* get_state: the first state of the collection with this name
get_state(sts, nm, n) ==
    LET hits == {k \in 1..Len(sts) : nm[sts[k]] = n}
    IN  IF hits = {} THEN NoState ELSE sts[Min(hits)]

has_state(sts, nm, n) == get_state(sts, nm, n) # NoState

\* get_transition: the position of the first transition whose origin is this
\* object and whose stored condition equals `when` as given; 0 when absent
get_transition(trs, origin, when) ==
    LET hits == {k \in 1..Len(trs) :
                    trs[k].origin = origin /\ trs[k].when = when}
    IN  IF hits = {} THEN 0 ELSE Min(hits)

\* has_transition that looks at the origin alone
has_transitionAnyCondition(trs, origin, when) ==
    \E k \in 1..Len(trs) : trs[k].origin = origin

has_transition(trs, origin, when) == get_transition(trs, origin, when) # 0

final_states(sts, fin) == SelectSeq(sts, LAMBDA s : fin[s])

has_final_state(sts, fin) == Len(final_states(sts, fin)) > 0

has_initial_state(init) == init # NoState

----------------------------------------------------------------------------
(* Transition *)

\* the condition stored as it is given, None staying None
NormWhenAsGiven(when) == when

\* the stored condition: None for a falsy value, the text otherwise
NormWhen(when) == IF when = None \/ when = "" THEN None ELSE when

\* a target setter that stores None as it is given
SetTargetAsGiven(nm, origin, target) ==
    IF target # NoState /\ target \notin Live(nm)
    THEN [err |-> "TypeError", target |-> NoState]
    ELSE [err |-> OK, target |-> target]

\* Transition.target setter: the new target, or TypeError
SetTarget(nm, origin, target) ==
    IF target = NoState THEN [err |-> OK, target |-> origin]
    ELSE IF target \notin Live(nm) THEN [err |-> "TypeError", target |-> NoState]
    ELSE [err |-> OK, target |-> target]

\* Transition.__init__
NewTransition(nm, origin, target, when) ==
    IF origin \notin Live(nm) THEN [err |-> "TypeError"]
    ELSE LET t == SetTarget(nm, origin, target)
         IN  IF t.err # OK THEN [err |-> t.err]
             ELSE [err |-> OK,
                   t |-> [origin |-> origin, target |-> t.target,
                          when |-> NormWhen(when)]]

----------------------------------------------------------------------------
(* Automaton: structural operations as functions of the automaton *)

\* add_transition: the outcome and the transition list afterwards
AddTransition(sts, trs, nm, origin, target, when) ==
    IF has_transition(trs, origin, when)
    THEN [err |-> "TransitionExistsError", transitions |-> trs]
    ELSE LET c == NewTransition(nm, origin, target, when)
         IN  IF c.err # OK THEN [err |-> c.err, transitions |-> trs]
             ELSE IF ~has_state(sts, nm, nm[origin])
             THEN [err |-> "StateNotFoundError", transitions |-> trs]
             ELSE IF target # NoState /\ ~has_state(sts, nm, nm[target])
             THEN [err |-> "StateNotFoundError", transitions |-> trs]
             ELSE [err |-> OK, transitions |-> Append(trs, c.t)]

\* add_state without the look-up of the name
AddStateUnchecked(sts, nm, fin, n) ==
    IF n = ""
    THEN [err |-> "InvalidStateNameError", states |-> sts, name |-> nm,
          is_final |-> fin, state |-> NoState]
    ELSE [err |-> OK, states |-> Append(sts, Min(MemberIds \ Live(nm))),
          name |-> [nm EXCEPT ![Min(MemberIds \ Live(nm))] = n],
          is_final |-> [fin EXCEPT ![Min(MemberIds \ Live(nm))] = FALSE],
          state |-> Min(MemberIds \ Live(nm))]

\* State.__init__ called by add_state: the outcome and the heap afterwards
AddState(sts, nm, fin, n) ==
    IF has_state(sts, nm, n)
    THEN [err |-> "StateExistsError", states |-> sts, name |-> nm,
          is_final |-> fin, state |-> NoState]
    ELSE IF n = ""
    THEN [err |-> "InvalidStateNameError", states |-> sts, name |-> nm,
          is_final |-> fin, state |-> NoState]
    ELSE LET s == FreshId(nm, MemberIds)
         IN  [err |-> OK, states |-> Append(sts, s),
              name |-> [nm EXCEPT ![s] = n],
              is_final |-> [fin EXCEPT ![s] = FALSE], state |-> s]

\* an initial_state setter that takes any State object
SetInitialStateUnchecked(sts, nm, init, s) ==
    IF s \notin Live(nm) THEN [err |-> "TypeError", initial_state |-> init]
    ELSE [err |-> OK, initial_state |-> s]

\* initial_state setter: the outcome and the initial state afterwards
SetInitialState(sts, nm, init, s) ==
    IF s \notin Live(nm) THEN [err |-> "TypeError", initial_state |-> init]
    ELSE IF ~has_state(sts, nm, nm[s])
    THEN [err |-> "StateNotFoundError", initial_state |-> init]
    ELSE [err |-> OK, initial_state |-> s]

\* The objects left once the lists of the automaton are dropped: the ones
\* that were not elements.  (A former element the caller still refers to
\* behaves as an object the caller made with State(name): see NewState.)
Release(sts, nm) ==
    [i \in Ids |-> IF i \in Range(sts) THEN "" ELSE nm[i]]

ReleaseFinal(sts, fin) ==
    [i \in Ids |-> IF i \in Range(sts) THEN FALSE ELSE fin[i]]

----------------------------------------------------------------------------
(* Table import: the input files and the configuration *)

\* The tables parse_csv reads, by path: a table is the list of the rows the
\* csv reader yields, header first, each row the list of its cells.  A path
\* outside the domain is a file that does not exist.
Files ==
    [ example |->
        << <<"", "", "a", "b", "c", "-">>,
           <<">", "q1", "q2", "-", "q1", "q3">>,
           <<"", "q2", "q2", "q1", "q3", "-">>,
           <<"*", "q3", "-", "q1", "q3", "q2">> >>,
      four |->
        << <<"", "", "a">>,
           <<">*", "q1", "q2">>,
           <<"", "q2", "q3">>,
           <<"", "q3", "q4">>,
           <<"", "q4", "q1">> >>,
      twoinitial |->
        << <<"", "", "a", "-">>,
           <<">", "q1", "q2", "-">>,
           <<">*", "q2", "-", "q1">> >>,
      dupstate |->
        << <<"", "", "a">>,
           <<">", "q1", "q1">>,
           <<"*", "q1", "-">> >>,
      noname |->
        << <<"", "", "a">>,
           <<">*", "q1", "q1">>,
           <<"", "", "q1">> >>,
      unknown |->
        << <<"", "", "a", "b">>,
           <<">*", "q1", "q2", "q1">>,
           <<"", "q2", "q1", "q9">> >>,
      duplabel |->
        << <<"", "", "a", "a">>,
           <<">*", "q1", "q1", "q1">> >>,
      epsilon |->
        << <<"", "", "-", "">>,
           <<">*", "q1", "q1", "q1">> >>,
      unlabelled |->
        << <<"", "", "a", "">>,
           <<">*", "q1", "q1", "q1">> >>,
      blank |->
        << <<"", "", "a">>,
           <<">*", "q1", "q1">>,
           << >> >>,
      swapped |->
        << <<"", "", "a", "-">>,
           <<"q1", ">", "q2", "q1">>,
           <<"q2", "*", "-", "q2">> >>,
      header |->
        << <<"", "", "a">> >>,
      empty |-> << >> ]

\* a path at which there is no file
MissingFile == "missing"

InputFiles == DOMAIN Files \cup {MissingFile}

\* constants.py: the default symbols and column indices
DEFAULT_EMPTY_STRING_SYMBOL == "-"
DEFAULT_FINAL_STATE_SYMBOL == "*"
DEFAULT_INITIAL_STATE_SYMBOL == ">"
DEFAULT_NO_TRANSITION_SYMBOL == "-"
DEFAULT_STATE_SYMBOLS_COL == 0
DEFAULT_STATES_COL == 1

DefaultConfig ==
    [initial_state_symbol |-> DEFAULT_INITIAL_STATE_SYMBOL,
     final_state_symbol |-> DEFAULT_FINAL_STATE_SYMBOL,
     no_transition_symbol |-> DEFAULT_NO_TRANSITION_SYMBOL,
     empty_string_symbol |-> DEFAULT_EMPTY_STRING_SYMBOL,
     states_col_index |-> DEFAULT_STATES_COL,
     state_symbols_col_index |-> DEFAULT_STATE_SYMBOLS_COL]

\* the name column and the marker column are the same column
SameColumnConfig == [DefaultConfig EXCEPT !.state_symbols_col_index = 1]
\* the name column comes first, the marker column second
SwappedConfig == [DefaultConfig EXCEPT !.states_col_index = 0,
                                       !.state_symbols_col_index = 1]

\* the marker column is beyond the last cell of the rows of `four`
WideConfig == [DefaultConfig EXCEPT !.state_symbols_col_index = 3]

\* the calls of parse_csv: every file with the defaults, the table with
\* swapped columns with its configuration, a marker column no row has, and
\* the equal column indices with a table, an empty file and a missing file
ParseInputs ==
    {<<f, DefaultConfig>> : f \in InputFiles}
    \cup {<<"swapped", SwappedConfig>>, <<"four", WideConfig>>}
    \cup {<<f, SameColumnConfig>> : f \in {"example", "empty", MissingFile}}

\* The pieces the cell texts of Files split into around an occurrence of a
\* marker symbol.
Fragments == {"", ">", "*"}

\* the comparison of the whole text with the symbol
ContainsWhole(sym, text) == text = sym

\* Python's `sym in text` on texts: sym occurs in text as a substring
Contains(sym, text) ==
    \E p \in Fragments : \E s \in Fragments : text = p \o sym \o s

\* list.pop(i): the 1-based position popped, 0 when i is out of range
PopPos(row, i) ==
    LET pos == IF i >= 0 THEN i + 1 ELSE Len(row) + i + 1
    IN  IF pos >= 1 /\ pos <= Len(row) THEN pos ELSE 0

\* the list after list.pop at a 1-based position
Remove(row, pos) ==
    [k \in 1..(Len(row) - 1) |-> IF k < pos THEN row[k] ELSE row[k + 1]]

----------------------------------------------------------------------------
(* Table import: parse_csv *)

\* reset: the automaton with no states, no transitions, no initial state
EmptyAutomaton(nm, fin) ==
    [states |-> << >>, transitions |-> << >>, initial_state |-> NoState,
     name |-> nm, is_final |-> fin]

\* First pass, one row: add the state named by the name cell, then read the
\* marker cell of what is left of the row.  `a` is the automaton so far.
FirstPassRow(a, row, cfg) ==
    LET p == PopPos(row, cfg.states_col_index)
    IN  IF p = 0 THEN [err |-> "IndexError", a |-> a]
        ELSE
        LET add == AddState(a.states, a.name, a.is_final, row[p])
            a1  == [a EXCEPT !.states = add.states, !.name = add.name,
                             !.is_final = add.is_final]
            rest == Remove(row, p)
            q == PopPos(rest, cfg.state_symbols_col_index -
                    (IF cfg.state_symbols_col_index > cfg.states_col_index
                     THEN 1 ELSE 0))
        IN  IF add.err # OK THEN [err |-> add.err, a |-> a]
            ELSE IF q = 0 THEN [err |-> "IndexError", a |-> a1]
            ELSE
            LET state_type == rest[q]
                isInit == Contains(cfg.initial_state_symbol, state_type)
                isFin  == Contains(cfg.final_state_symbol, state_type)
                a2 == IF isInit
                      THEN [a1 EXCEPT !.initial_state =
                              SetInitialState(a1.states, a1.name,
                                  a1.initial_state, add.state).initial_state]
                      ELSE a1
                a3 == IF isFin
                      THEN [a2 EXCEPT !.is_final[add.state] = TRUE]
                      ELSE a2
            IN  IF isInit /\ has_initial_state(a1.initial_state)
                THEN [err |-> "InitialStateAlreadyDefinedError", a |-> a1]
                ELSE [err |-> OK, a |-> a3]

\* First pass: the data rows from row k on
RECURSIVE FirstPass(_, _, _, _)
FirstPass(a, rows, k, cfg) ==
    IF k > Len(rows) THEN [err |-> OK, a |-> a]
    ELSE Only({IF r.err # OK THEN r ELSE FirstPass(r.a, rows, k + 1, cfg) :
                    r \in {FirstPassRow(a, rows[k], cfg)}})

\* the two column indices, lower first
IndicesLowerFirst(cfg) ==
    IF cfg.states_col_index >= cfg.state_symbols_col_index
    THEN <<cfg.state_symbols_col_index, cfg.states_col_index>>
    ELSE <<cfg.states_col_index, cfg.state_symbols_col_index>>

\* the two column indices, higher first
Indices(cfg) ==
    IF cfg.states_col_index >= cfg.state_symbols_col_index
    THEN <<cfg.states_col_index, cfg.state_symbols_col_index>>
    ELSE <<cfg.state_symbols_col_index, cfg.states_col_index>>

\* `for i in indices: row.pop(i)`: the cells left, or IndexError
PopIndices(row, indices) ==
    LET p1 == PopPos(row, indices[1])
        r1 == Remove(row, p1)
        p2 == PopPos(r1, indices[2])
    IN  IF p1 = 0 THEN [err |-> "IndexError", row |-> row]
        ELSE IF p2 = 0 THEN [err |-> "IndexError", row |-> r1]
        ELSE [err |-> OK, row |-> Remove(r1, p2)]

\* the label taken as the condition whatever it is
ConditionAsLabelled(label, cfg) == label

\* `when if when != empty_string_symbol else None`
Condition(label, cfg) ==
    IF label # cfg.empty_string_symbol THEN label ELSE None

\* Second pass, one state: the pairs of zip(columns, row) from pair j on
RECURSIVE SecondPassCells(_, _, _, _, _, _)
SecondPassCells(a, state, columns, row, j, cfg) ==
    IF j > Len(columns) \/ j > Len(row) THEN [err |-> OK, a |-> a]
    ELSE IF row[j] = cfg.no_transition_symbol
    THEN SecondPassCells(a, state, columns, row, j + 1, cfg)
    ELSE
    LET target == get_state(a.states, a.name, row[j])
        when == Condition(columns[j], cfg)
    IN  IF target = NoState THEN [err |-> "StateNotFoundError", a |-> a]
        ELSE Only({IF add.err # OK THEN [err |-> add.err, a |-> a]
                   ELSE SecondPassCells(
                            [a EXCEPT !.transitions = add.transitions],
                            state, columns, row, j + 1, cfg) :
                   add \in {AddTransition(a.states, a.transitions, a.name,
                                          state, target, when)}})

\* Second pass: the states from position k on, each with its data row
RECURSIVE SecondPassStates(_, _, _, _, _)
SecondPassStates(a, columns, rows, k, cfg) ==
    IF k > Len(a.states) THEN [err |-> OK, a |-> a]
    ELSE IF k > Len(rows) THEN [err |-> "StopIteration", a |-> a]
    ELSE
    LET cells == PopIndices(rows[k], Indices(cfg))
    IN  IF cells.err # OK THEN [err |-> cells.err, a |-> a]
        ELSE Only({IF r.err # OK THEN r
                   ELSE SecondPassStates(r.a, columns, rows, k + 1, cfg) :
                   r \in {SecondPassCells(a, a.states[k], columns,
                                          cells.row, 1, cfg)}})

\* Second pass: the header row, then the states
SecondPass(a, table, cfg) ==
    LET columns == PopIndices(Head(table), Indices(cfg))
    IN  IF columns.err # OK THEN [err |-> columns.err, a |-> a]
        ELSE SecondPassStates(a, columns.row, Tail(table), 1, cfg)

\* The two passes of the population
Populate(a, table, cfg) ==
    Only({IF first.err # OK
          THEN [err |-> first.err, phase |-> "first pass", a |-> first.a]
          ELSE Only({[err |-> second.err, phase |-> "second pass",
                      a |-> second.a] :
                     second \in {SecondPass(first.a, table, cfg)}}) :
          first \in {FirstPass(a, Tail(table), 1, cfg)}})

\* a handler that raises again without the reset
RollbackNothing(a, nm, fin) == a

\* The handler of a failed population: reset, then raise again.  The
\* objects made during the population are dropped with the lists.
Rollback(a, nm, fin) == EmptyAutomaton(nm, fin)

\* csv.Sniffer().sniff on the first 1024 characters: no dialect can be
\* determined from an empty sample; every table of Files yields one
Sniff(table) == IF table = << >> THEN "Error" ELSE OK

\* parse_csv with the reset made on entry, before the arguments and the
\* source are looked at
ParseCsvResetOnEntry(cur, input_file, cfg) ==
    LET nm  == Release(cur.states, cur.name)
        fin == ReleaseFinal(cur.states, cur.is_final)
    IN  IF cfg.states_col_index = cfg.state_symbols_col_index
        THEN [err |-> "IndexError", phase |-> "config",
              a |-> EmptyAutomaton(nm, fin)]
        ELSE IF input_file \notin DOMAIN Files
        THEN [err |-> "FileNotFoundError", phase |-> "open",
              a |-> EmptyAutomaton(nm, fin)]
        ELSE IF Sniff(Files[input_file]) # OK
        THEN [err |-> Sniff(Files[input_file]), phase |-> "sniff",
              a |-> EmptyAutomaton(nm, fin)]
        ELSE Only({IF r.err # OK
                   THEN [err |-> r.err, phase |-> r.phase,
                         a |-> Rollback(r.a, nm, fin)]
                   ELSE [err |-> OK, phase |-> "done", a |-> r.a] :
                   r \in {Populate(EmptyAutomaton(nm, fin),
                                   Files[input_file], cfg)}})

\* parse_csv that opens and samples the source before it compares the two
\* column indices
ParseCsvOpenFirst(cur, input_file, cfg) ==
    IF input_file \notin DOMAIN Files
    THEN [err |-> "FileNotFoundError", phase |-> "open", a |-> cur]
    ELSE IF Sniff(Files[input_file]) # OK
    THEN [err |-> Sniff(Files[input_file]), phase |-> "sniff", a |-> cur]
    ELSE IF cfg.states_col_index = cfg.state_symbols_col_index
    THEN [err |-> "IndexError", phase |-> "config", a |-> cur]
    ELSE
    LET nm  == Release(cur.states, cur.name)
        fin == ReleaseFinal(cur.states, cur.is_final)
    IN  Only({IF r.err # OK
              THEN [err |-> r.err, phase |-> r.phase,
                    a |-> Rollback(r.a, nm, fin)]
              ELSE [err |-> OK, phase |-> "done", a |-> r.a] :
              r \in {Populate(EmptyAutomaton(nm, fin),
                              Files[input_file], cfg)}})

\* parse_csv with a reset that drops the states and the initial state and
\* keeps the transition list
ParseCsvKeepTransitions(cur, input_file, cfg) ==
    IF cfg.states_col_index = cfg.state_symbols_col_index
    THEN [err |-> "IndexError", phase |-> "config", a |-> cur]
    ELSE IF input_file \notin DOMAIN Files
    THEN [err |-> "FileNotFoundError", phase |-> "open", a |-> cur]
    ELSE IF Sniff(Files[input_file]) # OK
    THEN [err |-> Sniff(Files[input_file]), phase |-> "sniff", a |-> cur]
    ELSE
    LET nm  == Release(cur.states, cur.name)
        fin == ReleaseFinal(cur.states, cur.is_final)
    IN  Only({IF r.err # OK
              THEN [err |-> r.err, phase |-> r.phase,
                    a |-> Rollback(r.a, nm, fin)]
              ELSE [err |-> OK, phase |-> "done", a |-> r.a] :
              r \in {Populate([EmptyAutomaton(nm, fin) EXCEPT
                                  !.transitions = cur.transitions],
                              Files[input_file], cfg)}})

\* parse_csv: the outcome (error, phase it was raised in) and the automaton
\* afterwards.  `cur` is the automaton before the call.
ParseCsv(cur, input_file, cfg) ==
    IF cfg.states_col_index = cfg.state_symbols_col_index
    THEN [err |-> "IndexError", phase |-> "config", a |-> cur]
    ELSE IF input_file \notin DOMAIN Files
    THEN [err |-> "FileNotFoundError", phase |-> "open", a |-> cur]
    ELSE IF Sniff(Files[input_file]) # OK
    THEN [err |-> Sniff(Files[input_file]), phase |-> "sniff", a |-> cur]
    ELSE IF Files[input_file] = << >>
    THEN [err |-> "HeadersNotFoundError", phase |-> "header", a |-> cur]
    ELSE
    LET nm  == Release(cur.states, cur.name)
        fin == ReleaseFinal(cur.states, cur.is_final)
    IN  Only({IF r.err # OK
              THEN [err |-> r.err, phase |-> r.phase,
                    a |-> Rollback(r.a, nm, fin)]
              ELSE [err |-> OK, phase |-> "done", a |-> r.a] :
              r \in {Populate(EmptyAutomaton(nm, fin),
                              Files[input_file], cfg)}})

----------------------------------------------------------------------------
(* Document export: paths and the file system *)

\* A path is its list of components and whether it starts at the root.
\* The working directory of the process:
Cwd == <<"home">>

\* os.path.abspath
AbsPath(p) ==
    IF p.abs THEN p ELSE [abs |-> TRUE, parts |-> Cwd \o p.parts]

\* os.path.split: the directory and the last component
SplitDir(p) == [abs |-> p.abs, parts |-> SubSeq(p.parts, 1, Len(p.parts) - 1)]
SplitBase(p) == p.parts[Len(p.parts)]

\* os.path.join of a directory and a file name
JoinPath(d, base) == [abs |-> d.abs, parts |-> d.parts \o <<base>>]

\* constants.py
JFLAP_FILE_EXTENSION == ".jff"
DEFAULT_DRAWING_MARGIN == 100
DEFAULT_DRAWING_RADIUS_FACTOR == 25

\* the file names without their extension
Stems == {"out"}

\* str.endswith
EndsWith(text, suffix) == \E stem \in Stems : text = stem \o suffix

\* dirname=None: the directory of filename is used
NoDir == [abs |-> FALSE, parts |-> <<"None">>]
\* DEFAULT_OUTPUT_DIR, '.'
DEFAULT_OUTPUT_DIR == [abs |-> FALSE, parts |-> << >>]

\* the directories that exist, apart from the entries of fs
Directories == {Cwd}

\* the one output path inside an existing directory
OutPath == Cwd \o <<"out.jff">>

\* what an output path holds: nothing, a directory, or a regular file that
\* has been written `version` times by build_jff (0: it was there before)
Absent == [kind |-> "absent", version |-> 0]
Directory == [kind |-> "dir", version |-> 0]
OldFile == [kind |-> "file", version |-> 0]

isdir(f, p) ==
    p.parts \in Directories \/ (p.parts \in DOMAIN f /\ f[p.parts].kind = "dir")

isfile(f, p) == p.parts \in DOMAIN f /\ f[p.parts].kind = "file"

\* the path build_jff writes to, before the existence checks
OutputFile(filename, dirname) ==
    LET abs == AbsPath(filename)
        output_file == IF dirname = NoDir THEN abs
                       ELSE AbsPath(JoinPath(dirname, SplitBase(abs)))
    IN  output_file

\* the output path with the extension appended when it is missing
WithExtension(output_file) ==
    IF EndsWith(SplitBase(output_file), JFLAP_FILE_EXTENSION)
    THEN output_file
    ELSE JoinPath(SplitDir(output_file),
                  SplitBase(output_file) \o JFLAP_FILE_EXTENSION)

----------------------------------------------------------------------------
(* Document export: the layout *)

\* cos and sin of a = 2*pi*idx/n + pi, in millionths, for n = 1..6
CosTable ==
    << <<-1000000>>,
       <<-1000000, 1000000>>,
       <<-1000000, 500000, 500000>>,
       <<-1000000, 0, 1000000, 0>>,
       <<-1000000, -309017, 809017, 809017, -309017>>,
       <<-1000000, -500000, 500000, 1000000, 500000, -500000>> >>

SinTable ==
    << <<0>>,
       <<0, 0>>,
       <<0, -866025, 866025>>,
       <<0, -1000000, 0, 1000000>>,
       <<0, -951057, -587785, 587785, 951057>>,
       <<0, -866025, -866025, 0, 866025, 866025>> >>

cos(idx, n) == CosTable[n][idx + 1]
sin(idx, n) == SinTable[n][idx + 1]

\* format(v, '.1f') of v given in millionths: the number of tenths
OneDecimal(micro) == (2 * micro + 100000) \div 200000

\* the position without the shift by the radius
positionAroundMargin(f, r, drawing_margin) ==
    OneDecimal(r * f + drawing_margin * 1000000)

\* position(f) = f'{r * f(a) + r + drawing_margin:.1f}', in tenths
position(f, r, drawing_margin) ==
    OneDecimal(r * f + (r + drawing_margin) * 1000000)

\* list.index counting the positions from 1
indexFromOne(sts, s) ==
    IF \E k \in 1..Len(sts) : sts[k] = s
    THEN Min({k \in 1..Len(sts) : sts[k] = s})
    ELSE -1

\* list.index: the 0-based position of an object in the list, -1 if absent
index(sts, s) ==
    LET hits == {k \in 1..Len(sts) : sts[k] = s}
    IN  IF hits = {} THEN -1 ELSE Min(hits) - 1

\* the state element of the state at 0-based position idx
StateElement(a, idx, drawing_radius_factor, drawing_margin) ==
    LET n == Len(a.states)
        state == a.states[idx + 1]
        r == n * drawing_radius_factor
    IN  [id |-> idx, name |-> a.name[state],
         x |-> position(cos(idx, n), r, drawing_margin),
         y |-> position(sin(idx, n), r, drawing_margin),
         initial |-> (a.initial_state = state),
         final |-> a.is_final[state]]

\* the transition element of a transition
TransitionElement(a, t) ==
    [from |-> index(a.states, t.origin), to |-> index(a.states, t.target),
     read |-> t.when]

\* the document: the state elements, then the transition elements
Document(a, drawing_radius_factor, drawing_margin) ==
    [states |-> [k \in 1..Len(a.states) |->
                    StateElement(a, k - 1, drawing_radius_factor,
                                 drawing_margin)],
     transitions |-> [k \in 1..Len(a.transitions) |->
                        TransitionElement(a, a.transitions[k])]]

NoDocument == [states |-> << >>, transitions |-> << >>]

\* the check of the initial state alone
ExportPreconditionsInitialOnly(a) ==
    IF ~has_initial_state(a.initial_state) THEN "NoInitialStateError" ELSE OK

\* the checks made before anything else: an initial and a final state
ExportPreconditions(a) ==
    IF ~has_initial_state(a.initial_state) THEN "NoInitialStateError"
    ELSE IF ~has_final_state(a.states, a.is_final) THEN "NoFinalStateError"
    ELSE OK

\* the check of the output directory alone
PathErrorDirectoryOnly(f, resolved, output_file) ==
    IF ~isdir(f, SplitDir(resolved)) THEN "NotADirectoryError" ELSE OK

\* the checks on the output directory and on the output path
PathError(f, resolved, output_file) ==
    IF ~isdir(f, SplitDir(resolved)) THEN "NotADirectoryError"
    ELSE IF isfile(f, output_file) THEN "FileExistsError"
    ELSE OK

\* building the document fails when list.index finds no such object
BuildError(a) ==
    IF \E k \in 1..Len(a.transitions) :
            \/ index(a.states, a.transitions[k].origin) = -1
            \/ index(a.states, a.transitions[k].target) = -1
    THEN "ValueError" ELSE OK

\* open(output_file, 'w') fails on a directory
OpenError(f, output_file) ==
    IF isdir(f, output_file) THEN "IsADirectoryError" ELSE OK

\* the first of the errors, in the order the code meets them
FirstError(errs) ==
    IF \A k \in 1..Len(errs) : errs[k] = OK THEN OK
    ELSE errs[Min({k \in 1..Len(errs) : errs[k] # OK})]

\* build_jff that opens the output file before it builds the document
BuildJffOpenFirst(a, f, filename, dirname, drawing_radius_factor, drawing_margin) ==
    LET resolved == OutputFile(filename, dirname)
        output_file == WithExtension(resolved)
        early == FirstError(<<ExportPreconditions(a),
                              PathError(f, resolved, output_file),
                              OpenError(f, output_file)>>)
        written == [f EXCEPT ![output_file.parts] =
                        [kind |-> "file", version |-> @.version + 1]]
    IN  IF early # OK
        THEN [err |-> early, doc |-> NoDocument, fs |-> f,
              output_file |-> output_file.parts]
        ELSE IF BuildError(a) # OK
        THEN [err |-> BuildError(a), doc |-> NoDocument, fs |-> written,
              output_file |-> output_file.parts]
        ELSE [err |-> OK,
              doc |-> Document(a, drawing_radius_factor, drawing_margin),
              fs |-> written, output_file |-> output_file.parts]

\* build_jff: the outcome, the document written and the file system after
BuildJff(a, f, filename, dirname, drawing_radius_factor, drawing_margin) ==
    LET resolved == OutputFile(filename, dirname)
        output_file == WithExtension(resolved)
        err == FirstError(<<ExportPreconditions(a),
                            PathError(f, resolved, output_file),
                            BuildError(a),
                            OpenError(f, output_file)>>)
    IN  IF err # OK
        THEN [err |-> err, doc |-> NoDocument, fs |-> f,
              output_file |-> output_file.parts]
        ELSE [err |-> OK,
              doc |-> Document(a, drawing_radius_factor, drawing_margin),
              fs |-> [f EXCEPT ![output_file.parts] =
                        [kind |-> "file", version |-> @.version + 1]],
              output_file |-> output_file.parts]

----------------------------------------------------------------------------
(* The calls a program makes on one Automaton and on its objects *)

\* the automaton as one value
Automaton ==
    [states |-> states, transitions |-> transitions,
     initial_state |-> initial_state, name |-> name, is_final |-> is_final]

\* The record of a call: the operation, the error raised (OK for none), the
\* phase of the call that raised it and what the call produced.
Call(op, err, phase, ret) ==
    [op |-> op, err |-> err, phase |-> phase, ret |-> ret]

\* what a call produces when no claim looks at it
Nothing == << >>

\* The caller has taken the outcome of the previous call (its result or its
\* exception) and is about to make the next one.
Idle == Call("idle", OK, "done", Nothing)
Ready == last = Idle

\* the names add_state is called with
NameInputs == {"", "q1", "q2"}
\* the names the caller makes State objects of its own with
ForeignNameInputs == {"", "q1"}
\* the conditions add_transition is called with
WhenInputs == {None, "", "a"}
\* the file names and directories build_jff is called with
FilenameInputs ==
    {[abs |-> FALSE, parts |-> <<"out">>],
     [abs |-> FALSE, parts |-> <<"out.jff">>],
     [abs |-> TRUE, parts |-> <<"nodir", "out">>]}
DirnameInputs ==
    {NoDir, DEFAULT_OUTPUT_DIR, [abs |-> TRUE, parts |-> <<"nodir">>]}
RadiusFactorInputs == {DEFAULT_DRAWING_RADIUS_FACTOR}
MarginInputs == {DEFAULT_DRAWING_MARGIN}
\* The file system is shared with the rest of the machine: what it holds
\* when build_jff is called is an input of the call.
FileSystems == [{OutPath} -> {Absent, OldFile, Directory}]

\* the states, the transitions and the objects of the caller's own
Size ==
    Len(states) + Len(transitions) + Cardinality(Foreign(states, name))

\* the automata on which the single-object operations are explored
Small == Size <= MaxSize

Init ==
    /\ states = << >>
    /\ transitions = << >>
    /\ initial_state = NoState
    /\ name = [i \in Ids |-> ""]
    /\ is_final = [i \in Ids |-> FALSE]
    /\ last = Call("Automaton", OK, "done", Nothing)

\* State(n): the caller makes a State object of its own.  A former state
\* of the automaton that the caller kept after a reset is such an object.
NewState(n) ==
    /\ Ready
    /\ Size < MaxSize
    /\ IF n = ""
       THEN /\ last' = Call("State", "InvalidStateNameError", "done", Nothing)
            /\ UNCHANGED <<name, is_final>>
       ELSE /\ name' = [name EXCEPT ![FreshId(name, ForeignIds)] = n]
            /\ is_final' = [is_final EXCEPT ![FreshId(name, ForeignIds)] = FALSE]
            /\ last' = Call("State", OK, "done", Nothing)
    /\ UNCHANGED <<states, transitions, initial_state>>

\* state.is_final = b, on a state of the automaton
SetIsFinal(s, b) ==
    /\ Ready
    /\ Small
    /\ s \in Range(states)
    /\ is_final' = [is_final EXCEPT ![s] = b]
    /\ last' = Call("is_final", OK, "done", Nothing)
    /\ UNCHANGED <<states, transitions, initial_state, name>>

add_state(n) ==
    /\ Ready
    /\ \E r \in {AddState(states, name, is_final, n)} :
           /\ r.err = OK => Size < MaxSize
           /\ states' = r.states
           /\ name' = r.name
           /\ is_final' = r.is_final
           /\ last' = Call("add_state", r.err, "done",
                           [name |-> n, state |-> r.state])
    /\ UNCHANGED <<transitions, initial_state>>

add_transition(origin, target, when) ==
    /\ Ready
    /\ Small
    /\ \E r \in {AddTransition(states, transitions, name,
                               origin, target, when)} :
           /\ r.err = OK => Size < MaxSize
           /\ transitions' = r.transitions
           /\ last' = Call("add_transition", r.err, "done",
                           [origin |-> origin, target |-> target,
                            when |-> when])
    /\ UNCHANGED <<states, initial_state, name, is_final>>

\* transition.target = target, on the k-th transition of the automaton
set_target(k, target) ==
    /\ Ready
    /\ Small
    /\ k \in 1..Len(transitions)
    /\ \E r \in {SetTarget(name, transitions[k].origin, target)} :
           /\ transitions' = IF r.err = OK
                             THEN [transitions EXCEPT ![k].target = r.target]
                             ELSE transitions
           /\ last' = Call("target", r.err, "done",
                           [k |-> k, target |-> target])
    /\ UNCHANGED <<states, initial_state, name, is_final>>

\* automaton.initial_state = s
set_initial_state(s) ==
    /\ Ready
    /\ Small
    /\ \E r \in {SetInitialState(states, name, initial_state, s)} :
           /\ initial_state' = r.initial_state
           /\ last' = Call("initial_state", r.err, "done", [state |-> s])
    /\ UNCHANGED <<states, transitions, name, is_final>>

parse_csv(input_file, cfg) ==
    /\ Ready
    /\ \E r \in {ParseCsv(Automaton, input_file, cfg)} :
           /\ states' = r.a.states
           /\ transitions' = r.a.transitions
           /\ initial_state' = r.a.initial_state
           /\ name' = r.a.name
           /\ is_final' = r.a.is_final
           /\ last' = Call("parse_csv", r.err, r.phase,
                           [input_file |-> input_file, cfg |-> cfg,
                            populated |-> /\ states # << >>
                                          /\ transitions # << >>
                                          /\ has_initial_state(
                                                 initial_state)])

reset ==
    /\ Ready
    /\ states' = << >>
    /\ transitions' = << >>
    /\ initial_state' = NoState
    /\ name' = Release(states, name)
    /\ is_final' = ReleaseFinal(states, is_final)
    /\ last' = Call("reset", OK, "done", Nothing)

\* build_jff, called when the file system is f
build_jff(filename, dirname, drawing_radius_factor, drawing_margin, f) ==
    /\ Ready
    /\ \E r \in {BuildJff(Automaton, f, filename, dirname,
                         drawing_radius_factor, drawing_margin)} :
           last' = Call("build_jff", r.err, "done",
                        [doc |-> r.doc, before |-> f, fs |-> r.fs,
                         output_file |-> r.output_file,
                         drawing_radius_factor |-> drawing_radius_factor,
                         drawing_margin |-> drawing_margin])
    /\ UNCHANGED <<states, transitions, initial_state, name, is_final>>

\* The caller takes the outcome of the call: it uses the value returned or
\* handles the exception, and goes on.
Continue ==
    /\ ~Ready
    /\ last' = Idle
    /\ UNCHANGED <<states, transitions, initial_state, name, is_final>>

Next ==
    \/ \E n \in ForeignNameInputs : NewState(n)
    \/ \E s \in Ids : \E b \in BOOLEAN : SetIsFinal(s, b)
    \/ \E n \in NameInputs : add_state(n)
    \/ \E origin \in Live(name) \cup {NotAState} :
       \E target \in Live(name) \cup {NoState, NotAState} :
       \E when \in WhenInputs : add_transition(origin, target, when)
    \/ \E k \in 1..MaxSize :
       \E target \in Live(name) \cup {NoState, NotAState} :
            set_target(k, target)
    \/ \E s \in Live(name) \cup {NotAState} : set_initial_state(s)
    \/ \E in \in ParseInputs : parse_csv(in[1], in[2])
    \/ reset
    \/ \E filename \in FilenameInputs : \E dirname \in DirnameInputs :
       \E factor \in RadiusFactorInputs : \E margin \in MarginInputs :
       \E f \in FileSystems :
            build_jff(filename, dirname, factor, margin, f)
    \/ Continue

Spec == Init /\ [][Next]_vars

----------------------------------------------------------------------------
(* The removal of the name column and of the marker column from one row *)

\* the cells of the rows: a name, the initial marker, the final marker
CellTexts == {"q1", DEFAULT_INITIAL_STATE_SYMBOL, DEFAULT_FINAL_STATE_SYMBOL}

Rows == UNION {[1..n -> CellTexts] : n \in 2..MaxCells}

\* every pair of different column indices, with the default symbols
ColumnConfigs ==
    {[DefaultConfig EXCEPT !.states_col_index = s,
                           !.state_symbols_col_index = m] :
        <<s, m>> \in {p \in (0..(MaxCells - 1)) \X (0..(MaxCells - 1)) :
                        p[1] # p[2]}}

\* an empty automaton, and a row that is long enough to hold both columns
ColumnsInit ==
    /\ states = << >>
    /\ transitions = << >>
    /\ initial_state = NoState
    /\ name = [i \in Ids |-> ""]
    /\ is_final = [i \in Ids |-> FALSE]
    /\ \E row \in Rows : \E cfg \in ColumnConfigs :
            /\ cfg.states_col_index < Len(row)
            /\ cfg.state_symbols_col_index < Len(row)
            /\ last = Call("row", OK, "done", [row |-> row, cfg |-> cfg])

\* the body of the loop of the first pass, on the row
first_pass_row ==
    /\ last.op = "row"
    /\ \E r \in {FirstPassRow(Automaton, last.ret.row, last.ret.cfg)} :
           /\ states' = r.a.states
           /\ initial_state' = r.a.initial_state
           /\ name' = r.a.name
           /\ is_final' = r.a.is_final
           /\ last' = Call("first pass", r.err, "first pass", last.ret)
    /\ UNCHANGED transitions

\* the removal of the two columns in the second pass, on the row
second_pass_row ==
    /\ last.op = "row"
    /\ \E c \in {PopIndices(last.ret.row, Indices(last.ret.cfg))} :
           last' = Call("second pass", c.err, "second pass",
                        [row |-> last.ret.row, cfg |-> last.ret.cfg,
                         cells |-> c.row])
    /\ UNCHANGED <<states, transitions, initial_state, name, is_final>>

ColumnsNext == first_pass_row \/ second_pass_row

ColumnsSpec == ColumnsInit /\ [][ColumnsNext]_vars

----------------------------------------------------------------------------
(* Properties *)

\* the automaton has no states, no transitions and no initial state
IsEmpty ==
    states = << >> /\ transitions = << >> /\ initial_state = NoState

\* the call just made is a parse_csv that raised during the population
PopulationFailed ==
    /\ last.op = "parse_csv"
    /\ last.err # OK
    /\ last.phase \in {"first pass", "second pass"}

\* C1: no two transitions of the automaton have the same origin and the
\* same stored condition (add_transition refuses a pair that is present).
C1_UniqueOriginAndCondition ==
    \A i \in 1..Len(transitions) : \A j \in 1..Len(transitions) :
        i # j => ~(/\ transitions[i].origin = transitions[j].origin
                   /\ transitions[i].when = transitions[j].when)

\* C2: when parse_csv fails during the population (first or second pass),
\* the automaton is empty once the error has reached the caller.
C2_PopulationFailureLeavesEmpty == PopulationFailed => IsEmpty

\* a population that failed in the second pass, after states and
\* transitions had been added, and left nothing behind
C2_Witness ==
    /\ PopulationFailed
    /\ last.phase = "second pass"
    /\ last.err = "TransitionExistsError"
    /\ IsEmpty

\* C3: the origin and the target of every transition of the automaton are
\* elements of its state collection.
C3_TransitionsWithinStates ==
    \A k \in 1..Len(transitions) :
        /\ transitions[k].origin \in Range(states)
        /\ transitions[k].target \in Range(states)

\* C4: a document that build_jff produced has exactly one state element
\* with the initial marker, the one at the position of initial_state in the
\* state collection, and at least one state element with the final marker.
C4_OneInitialSomeFinal ==
    (last.op = "build_jff" /\ last.err = OK) =>
        LET elements == last.ret.doc.states
            marked == {k \in 1..Len(elements) : elements[k].initial}
        IN  /\ Cardinality(marked) = 1
            /\ \A k \in marked :
                    elements[k].id = index(states, initial_state)
            /\ \E k \in 1..Len(elements) : elements[k].final

\* C5: build_jff raises NoInitialStateError when no initial state is set and
\* NoFinalStateError when one is set but no state is final, whatever the
\* file name, the directory and the file system are.
C5_PreconditionsComeFirst ==
    last.op = "build_jff" =>
        /\ initial_state = NoState => last.err = "NoInitialStateError"
        /\ (/\ initial_state # NoState
            /\ \A k \in 1..Len(states) : ~is_final[states[k]])
                => last.err = "NoFinalStateError"

\* an export refused for the lack of a final state although the output
\* path held a file, which a later check would have reported
C5_Witness ==
    /\ last.op = "build_jff"
    /\ last.err = "NoFinalStateError"
    /\ initial_state # NoState
    /\ last.ret.before[OutPath] = OldFile

\* the call just made imported the example table with the defaults
ParsedExample ==
    /\ last.op = "parse_csv"
    /\ last.ret.input_file = "example"
    /\ last.ret.cfg = DefaultConfig

\* the cells of the data rows of a table, outside the two leading columns,
\* that are not the no-transition marker
RECURSIVE TransitionCells(_, _)
TransitionCells(table, k) ==
    IF k > Len(table) THEN 0
    ELSE Cardinality({j \in 3..Len(table[k]) :
                        table[k][j] # DEFAULT_NO_TRANSITION_SYMBOL})
         + TransitionCells(table, k + 1)

\* C6 as stated: importing the example table with the defaults yields
\* exactly 7 transitions.
C6_SevenTransitions ==
    ParsedExample => (last.err = OK /\ Len(transitions) = 7)

\* C6, amended: importing the example table with the defaults yields
\* exactly 9 transitions, one for each data cell outside the marker and
\* name columns that is not the no-transition marker.
C6_NineTransitions ==
    ParsedExample =>
        /\ last.err = OK
        /\ Len(transitions) = 9
        /\ Len(transitions) = TransitionCells(Files["example"], 2)

\* the example table has been imported
C6_Witness == ParsedExample /\ last.err = OK /\ Len(states) = 3

\* the transitions leaving the state at a position of the state
\* collection, as pairs of stored condition and name of the target
Leaving(pos) ==
    {<<transitions[k].when, name[transitions[k].target]>> :
        k \in {i \in 1..Len(transitions) : transitions[i].origin = states[pos]}}

\* C7: importing the example table with the defaults yields the states q1,
\* q2, q3 in that order, q1 initial, q3 the only final state, and from q1 a
\* transition on a to q2, on c to q1, on the empty condition to q3 and none
\* on b.
C7_ExampleAutomaton ==
    ParsedExample =>
        /\ last.err = OK
        /\ [k \in 1..Len(states) |-> name[states[k]]] = <<"q1", "q2", "q3">>
        /\ initial_state = states[1]
        /\ {k \in 1..Len(states) : is_final[states[k]]} = {3}
        /\ Leaving(1) = {<<"a", "q2">>, <<"c", "q1">>, <<None, "q3">>}

\* the example table has been imported and q1 has its epsilon transition
C7_Witness ==
    /\ ParsedExample
    /\ last.err = OK
    /\ \E k \in 1..Len(transitions) :
            /\ transitions[k].origin = initial_state
            /\ transitions[k].when = None

\* the call just made exported an automaton of four states with the radius
\* factor 25 and the margin 100
ExportedFour ==
    /\ last.op = "build_jff"
    /\ last.err = OK
    /\ Len(states) = 4
    /\ last.ret.drawing_radius_factor = 25
    /\ last.ret.drawing_margin = 100

\* C8 as stated: with four states, factor 25 and margin 100, the state at
\* index 0 gets x = 100.0 and y = 100.0 (coordinates are in tenths).
C8_LeftmostAtHundredHundred ==
    ExportedFour =>
        /\ last.ret.doc.states[1].x = 1000
        /\ last.ret.doc.states[1].y = 1000

\* C8, amended: with four states, factor 25 and margin 100, the radius is
\* 100 and the state at index 0 gets x = 100.0 and y = 200.0.
C8_LeftmostAtHundredTwoHundred ==
    ExportedFour =>
        /\ Len(states) * last.ret.drawing_radius_factor = 100
        /\ last.ret.doc.states[1].x = 1000
        /\ last.ret.doc.states[1].y = 2000

\* an automaton of four states has been exported
C8_Witness == ExportedFour /\ last.ret.doc.states[1].id = 0

\* C9 as stated: every failed parse_csv leaves the automaton empty.
C9_EveryFailureLeavesEmpty ==
    (last.op = "parse_csv" /\ last.err # OK) => IsEmpty

\* C9, amended: a parse_csv that fails during the population leaves the
\* automaton empty; one that fails before (equal column indices, a source
\* that cannot be opened or read) leaves the automaton as it was.
C9_FailureLeavesEmptyOrUntouched ==
    [][(last'.op = "parse_csv" /\ last'.err # OK) =>
            IF last'.phase \in {"first pass", "second pass"}
            THEN IsEmpty'
            ELSE UNCHANGED <<states, transitions, initial_state, name,
                             is_final>>]_vars

\* a parse_csv refused for its equal column indices, on an automaton that
\* still has its states
C9_Witness ==
    /\ last.op = "parse_csv"
    /\ last.err = "IndexError"
    /\ last.phase = "config"
    /\ states # << >>

\* an output path holds something: a file or a directory
Exists(f, path) == path \in DOMAIN f /\ f[path].kind # "absent"

\* the call just made is a build_jff that got as far as the output path:
\* the automaton had its initial and final states and the directory exists
ReachedOutputPath ==
    /\ last.op = "build_jff"
    /\ last.err \notin {"NoInitialStateError", "NoFinalStateError",
                        "NotADirectoryError"}

\* C10 as stated: whenever the resolved output path already exists, the
\* export fails with FileExistsError and the entry is unchanged; the output
\* is written only to a path that did not exist.
C10_ExistingPathIsFileExists ==
    ReachedOutputPath =>
        /\ Exists(last.ret.before, last.ret.output_file) =>
                (last.err = "FileExistsError" /\ last.ret.fs = last.ret.before)
        /\ last.ret.fs # last.ret.before =>
                ~Exists(last.ret.before, last.ret.output_file)

\* C10, amended: whenever the resolved output path already holds a file or
\* a directory, the export fails and the entry is unchanged; the error is
\* FileExistsError when the entry is a regular file and the checks made
\* before (initial state, final state, output directory) pass; the output
\* is written only to a path that did not exist.
C10_NeverOverwrites ==
    last.op = "build_jff" =>
        /\ Exists(last.ret.before, last.ret.output_file) =>
                (last.err # OK /\ last.ret.fs = last.ret.before)
        /\ (/\ ReachedOutputPath
            /\ Exists(last.ret.before, last.ret.output_file)
            /\ last.ret.before[last.ret.output_file].kind = "file")
                => last.err = "FileExistsError"
        /\ last.ret.fs # last.ret.before =>
                /\ last.err = OK
                /\ ~Exists(last.ret.before, last.ret.output_file)
                /\ last.ret.fs[last.ret.output_file].kind = "file"

\* an export refused because the output path held a file
C10_Witness ==
    /\ last.op = "build_jff"
    /\ last.err = "FileExistsError"
    /\ last.ret.before[last.ret.output_file] = OldFile
    /\ last.ret.fs = last.ret.before

\* the names of the states of the collection are pairwise different
UniqueNames ==
    \A i \in 1..Len(states) : \A j \in 1..Len(states) :
        i # j => name[states[i]] # name[states[j]]

\* C11: no two states of the collection have the same name; add_state of a
\* name the collection has fails with StateExistsError and changes nothing;
\* add_state of another non-empty name succeeds, appends the new state, and
\* has_state and get_state then find that state under the name.
C11_AddStateKeepsNamesUnique ==
    /\ []UniqueNames
    /\ [][last'.op = "add_state" =>
            IF has_state(states, name, last'.ret.name)
            THEN /\ last'.err = "StateExistsError"
                 /\ UNCHANGED <<states, transitions, initial_state, name,
                                is_final>>
            ELSE last'.ret.name # "" =>
                 /\ last'.err = OK
                 /\ states' = Append(states, last'.ret.state)
                 /\ has_state(states', name', last'.ret.name)
                 /\ get_state(states', name', last'.ret.name)
                        = last'.ret.state]_vars

\* a second add_state of the name of a state has been refused
C11_Witness ==
    /\ last.op = "add_state"
    /\ last.err = "StateExistsError"
    /\ has_state(states, name, last.ret.name)
    /\ Len(states) = 1

\* C12: an initial state that is set is an element of the state collection
\* (the setter refuses every State that is not one with StateNotFoundError).
C12_InitialStateIsElement ==
    initial_state # NoState => initial_state \in Range(states)

\* C13: add_transition with an origin, or a given target, that is a State
\* and not an element of the state collection fails with
\* StateNotFoundError and leaves the automaton as it was.  (The origin is a
\* State and the target a State or None, so that no TypeError comes first.)
C13_ForeignStatesRefused ==
    [][(/\ last'.op = "add_transition"
        /\ last'.ret.origin \in Live(name)
        /\ last'.ret.target \in Live(name) \cup {NoState}
        /\ \/ last'.ret.origin \notin Range(states)
           \/ /\ last'.ret.target # NoState
              /\ last'.ret.target \notin Range(states))
        => /\ last'.err = "StateNotFoundError"
           /\ UNCHANGED <<states, transitions, initial_state>>]_vars

\* the call just made is a parse_csv with the name column index equal to
\* the marker column index
ParsedWithEqualIndices ==
    /\ last.op = "parse_csv"
    /\ last.ret.cfg.states_col_index = last.ret.cfg.state_symbols_col_index

\* C14: parse_csv with equal column indices fails with IndexError (the
\* configuration error) at the comparison of the indices, before the source
\* is opened, whatever the source is.
C14_EqualIndicesRefusedFirst ==
    ParsedWithEqualIndices =>
        (last.err = "IndexError" /\ last.phase = "config")

\* equal column indices have been refused although the source is missing
C14_Witness ==
    /\ ParsedWithEqualIndices
    /\ last.ret.input_file = MissingFile
    /\ last.err = "IndexError"

\* C18: parse_csv on an empty file, with different column indices, fails
\* with HeadersNotFoundError.
C18_EmptySourceIsHeadersNotFound ==
    (/\ last.op = "parse_csv"
     /\ last.ret.input_file = "empty"
     /\ ~ParsedWithEqualIndices)
        => last.err = "HeadersNotFoundError"

\* C15: the document of a successful export has one state element per
\* state, the k-th with the identifier k-1 and the name of the k-th state,
\* and one transition element per transition, whose from and to are the
\* 0-based positions of the origin and the target in the state collection.
C15_DocumentMirrorsAutomaton ==
    (last.op = "build_jff" /\ last.err = OK) =>
        LET doc == last.ret.doc
        IN  /\ Len(doc.states) = Len(states)
            /\ \A k \in 1..Len(states) :
                    /\ doc.states[k].id = k - 1
                    /\ doc.states[k].name = name[states[k]]
            /\ Len(doc.transitions) = Len(transitions)
            /\ \A k \in 1..Len(transitions) :
                    /\ doc.transitions[k].from \in 0..(Len(states) - 1)
                    /\ doc.transitions[k].to \in 0..(Len(states) - 1)
                    /\ states[doc.transitions[k].from + 1]
                            = transitions[k].origin
                    /\ states[doc.transitions[k].to + 1]
                            = transitions[k].target

\* the automaton of the example table has been exported: three states and
\* nine transitions, among them one from q1 to q3
C15_Witness ==
    /\ last.op = "build_jff"
    /\ last.err = OK
    /\ Len(last.ret.doc.states) = 3
    /\ Len(last.ret.doc.transitions) = 9
    /\ \E k \in 1..9 : /\ last.ret.doc.transitions[k].from = 0
                        /\ last.ret.doc.transitions[k].to = 2

\* C16: a build_jff that fails leaves the states, their final flags, the
\* transitions and the initial state as they were, and the file system as
\* it was: no output file is made.
C16_FailedExportChangesNothing ==
    [][(last'.op = "build_jff" /\ last'.err # OK) =>
            /\ UNCHANGED <<states, transitions, initial_state, name,
                           is_final>>
            /\ last'.ret.fs = last'.ret.before]_vars

\* an export that failed while the document was being built, all the
\* checks made before having passed, and that left no file
C16_Witness ==
    /\ last.op = "build_jff"
    /\ last.err = "ValueError"
    /\ last.ret.before[last.ret.output_file] = Absent
    /\ last.ret.fs = last.ret.before

\* C17: a transition made with no target has its origin as target; a
\* target that is neither None nor a State is refused with TypeError, at
\* construction and at assignment, and the target stays; assigning None
\* sets the target back to the origin; assigning a State sets it; the
\* origin of a transition never changes.
C17_TargetDefaultsToOrigin ==
    [][/\ (last'.op = "add_transition" /\ last'.err = OK) =>
            LET t == transitions'[Len(transitions')]
            IN  /\ transitions' = Append(transitions, t)
                /\ t.origin = last'.ret.origin
                /\ t.target = IF last'.ret.target = NoState
                              THEN last'.ret.origin
                              ELSE last'.ret.target
       /\ (/\ last'.op = "add_transition"
           /\ last'.ret.origin \in Live(name)
           /\ last'.ret.target = NotAState
           /\ last'.err # "TransitionExistsError") =>
                (last'.err = "TypeError" /\ transitions' = transitions)
       /\ last'.op = "target" =>
            LET k == last'.ret.k
                target == last'.ret.target
            IN  /\ Len(transitions') = Len(transitions)
                /\ \A i \in 1..Len(transitions) :
                        /\ transitions'[i].origin = transitions[i].origin
                        /\ i # k => transitions'[i] = transitions[i]
                /\ target = NotAState =>
                        /\ last'.err = "TypeError"
                        /\ transitions' = transitions
                /\ target = NoState =>
                        /\ last'.err = OK
                        /\ transitions'[k].target = transitions[k].origin
                /\ target \in Live(name) =>
                        /\ last'.err = OK
                        /\ transitions'[k].target = target]_vars

\* None has been assigned as the target of a transition, the caller having
\* an object of its own to assign, and the target is the origin
C17_Witness ==
    /\ last.op = "target"
    /\ last.err = OK
    /\ last.ret.target = NoState
    /\ last.ret.k \in 1..Len(transitions)
    /\ transitions[last.ret.k].target = transitions[last.ret.k].origin
    /\ Foreign(states, name) # {}

\* the cells of a row other than the two at the 0-based indices s and m, in
\* their order
OtherCells(row, s, m) ==
    LET kept == SelectSeq([k \in 1..Len(row) |-> k],
                          LAMBDA k : k # s + 1 /\ k # m + 1)
    IN  [i \in 1..Len(kept) |-> row[kept[i]]]

\* C19: for different column indices s (names) and m (markers) and a row
\* that holds both, the first pass takes the name from cell s of the row
\* and the marker from cell m of the row, and the second pass leaves the
\* cells of the row other than s and m, in their order.
C19_BothPassesRemoveTheSameColumns ==
    LET row == last.ret.row
        s == last.ret.cfg.states_col_index
        m == last.ret.cfg.state_symbols_col_index
    IN  /\ last.op = "first pass" =>
                /\ last.err = OK
                /\ Len(states) = 1
                /\ name[states[1]] = row[s + 1]
                /\ (initial_state = states[1])
                        <=> (row[m + 1] = DEFAULT_INITIAL_STATE_SYMBOL)
                /\ is_final[states[1]]
                        <=> (row[m + 1] = DEFAULT_FINAL_STATE_SYMBOL)
        /\ last.op = "second pass" =>
                /\ last.err = OK
                /\ last.ret.cells = OtherCells(row, s, m)

\* the two columns have been removed from a row of four cells whose marker
\* column comes after its name column, neither of them at an end
C19_Witness ==
    /\ last.op = "second pass"
    /\ Len(last.ret.row) = 4
    /\ last.ret.cfg.states_col_index = 1
    /\ last.ret.cfg.state_symbols_col_index = 2
    /\ last.ret.cells = <<last.ret.row[1], last.ret.row[4]>>

\* the call just made is a parse_csv that succeeded
Imported == last.op = "parse_csv" /\ last.err = OK

\* the table the call just made has read, and its rows without the name
\* column and the marker column
ImportedTable == Files[last.ret.input_file]

ImportedCells(k) ==
    OtherCells(ImportedTable[k], last.ret.cfg.states_col_index,
               last.ret.cfg.state_symbols_col_index)

\* the pairs of a data row i and a column j whose cell is paired with a
\* header label and is not the no-transition marker
TransitionPairs ==
    {p \in (1..(Len(ImportedTable) - 1)) \X (1..Len(ImportedCells(1))) :
        /\ p[2] <= Len(ImportedCells(p[1] + 1))
        /\ ImportedCells(p[1] + 1)[p[2]] # last.ret.cfg.no_transition_symbol}

\* the state with a name
Named(n) == CHOOSE q \in Range(states) : name[q] = n

\* the transitions the table describes, the condition of a label given by
\* cond
TableTransitions(cond(_)) ==
    {[origin |-> states[p[1]],
      target |-> Named(ImportedCells(p[1] + 1)[p[2]]),
      when |-> cond(ImportedCells(1)[p[2]])] : p \in TransitionPairs}

\* every cell that describes a transition names a state
CellsResolve ==
    \A p \in TransitionPairs :
        \E q \in Range(states) : name[q] = ImportedCells(p[1] + 1)[p[2]]

\* C20 as stated: after a successful parse_csv the transitions are the
\* triples (state of row i, label of column j, state named by cell (i, j))
\* over the cells that are not the no-transition marker, the condition
\* being None when the label is the empty-condition marker and the label
\* otherwise; a cell that names no state fails the import with
\* StateNotFoundError.
C20_TransitionsAreTheCells ==
    /\ Imported =>
            /\ CellsResolve
            /\ Range(transitions) =
                    TableTransitions(LAMBDA label :
                        IF label = last.ret.cfg.empty_string_symbol
                        THEN None ELSE label)
    /\ (last.op = "parse_csv" /\ last.ret.input_file = "unknown")
            => last.err = "StateNotFoundError"

\* C20, amended: as above, the condition being None when the label is the
\* empty-condition marker or is empty, and there being one transition for
\* each such cell.
C20_TransitionsAreTheCellsNormalized ==
    /\ Imported =>
            /\ CellsResolve
            /\ Len(transitions) = Cardinality(TransitionPairs)
            /\ Range(transitions) =
                    TableTransitions(LAMBDA label :
                        IF label = last.ret.cfg.empty_string_symbol
                           \/ label = ""
                        THEN None ELSE label)
    /\ (last.op = "parse_csv" /\ last.ret.input_file = "unknown")
            => last.err = "StateNotFoundError"

\* a table has been imported in which the target of a transition of the
\* first row is the state of a later row
C20_Witness ==
    /\ Imported
    /\ Len(states) >= 2
    /\ \E k \in 1..Len(transitions) :
            /\ transitions[k].origin = states[1]
            /\ transitions[k].target = states[2]

\* the marker cell of the data row i of the table just read, "" when the
\* row has no such cell
MarkerCell(i) ==
    LET row == ImportedTable[i + 1]
        m == last.ret.cfg.state_symbols_col_index
    IN  IF m + 1 \in 1..Len(row) THEN row[m + 1] ELSE ""

\* the marker cells of the tables that hold the default initial marker,
\* and those that hold the default final marker
InitialCells == {">", ">*"}
FinalCells == {"*", ">*"}

\* the data rows of the table just read whose marker cell holds the
\* initial marker
InitialRows ==
    {i \in 1..(Len(ImportedTable) - 1) : MarkerCell(i) \in InitialCells}

\* C21: after a successful import the initial state is the state of the one
\* row whose marker cell holds the initial marker (none when no row does),
\* and a state is final exactly when the marker cell of its row holds the
\* final marker: a row with both markers gives a state that is initial and
\* final, a row with neither a state that is neither.  An import fails with
\* InitialStateAlreadyDefinedError only when a second row holds the initial
\* marker, and the automaton is then empty.
C21_MarkersDecideInitialAndFinal ==
    /\ Imported =>
            /\ Cardinality(InitialRows) <= 1
            /\ \A i \in 1..Len(states) :
                    /\ (initial_state = states[i]) <=> (i \in InitialRows)
                    /\ is_final[states[i]] <=> (MarkerCell(i) \in FinalCells)
            /\ InitialRows = {} => initial_state = NoState
    /\ (last.op = "parse_csv"
            /\ last.err = "InitialStateAlreadyDefinedError") =>
            /\ Cardinality(InitialRows) >= 2
            /\ IsEmpty
    /\ (last.op = "parse_csv" /\ last.ret.input_file = "twoinitial") =>
            last.err = "InitialStateAlreadyDefinedError"

\* an import has been refused at the second row that holds the initial
\* marker, a row that holds the final marker as well
C21_Witness ==
    /\ last.op = "parse_csv"
    /\ last.err = "InitialStateAlreadyDefinedError"
    /\ last.phase = "first pass"
    /\ MarkerCell(2) = ">*"
    /\ IsEmpty

\* What an automaton holds, without the identity of its objects: the names
\* and the final flags of the states in order, the position of the initial
\* state (-1 for none), and the transitions in order with the positions of
\* their origin and target.
View(a) ==
    [names |-> [k \in 1..Len(a.states) |-> a.name[a.states[k]]],
     finals |-> [k \in 1..Len(a.states) |-> a.is_final[a.states[k]]],
     initial |-> index(a.states, a.initial_state),
     transitions |->
        [k \in 1..Len(a.transitions) |->
            <<index(a.states, a.transitions[k].origin),
              a.transitions[k].when,
              index(a.states, a.transitions[k].target)>>]]

\* an automaton just constructed
NewAutomaton == EmptyAutomaton([i \in Ids |-> ""], [i \in Ids |-> FALSE])

\* C22: what a successful parse_csv leaves depends on the table and the
\* configuration alone: it is what the same call leaves on an automaton just
\* constructed, whatever the automaton held before (states, transitions and
\* initial state of before are gone), and the same call made once more
\* leaves the same names, order, final flags, initial state and
\* transitions.
C22_ImportDependsOnTableAlone ==
    Imported =>
        /\ View(Automaton) =
               View(ParseCsv(NewAutomaton, last.ret.input_file,
                             last.ret.cfg).a)
        /\ ParseCsv(Automaton, last.ret.input_file, last.ret.cfg).err = OK
        /\ View(ParseCsv(Automaton, last.ret.input_file,
                         last.ret.cfg).a) = View(Automaton)
        /\ Len(states) = Len(ImportedTable) - 1

\* a successful import of the example table into an automaton that held
\* states, transitions and an initial state
C22_Witness ==
    /\ Imported
    /\ last.ret.populated
    /\ last.ret.input_file = "example"
    /\ Len(states) = 3

\* the export just called went past its two preconditions
PastPreconditions ==
    /\ last.op = "build_jff"
    /\ last.err \notin {"NoInitialStateError", "NoFinalStateError"}

\* C23: an automaton that has an initial state has at least one state; so
\* an export of an automaton with no state fails with NoInitialStateError,
\* and an export that goes past the preconditions, where the layout divides
\* by the number of states, has at least one state to lay out.
C23_InitialStateImpliesStates ==
    /\ has_initial_state(initial_state) => Len(states) >= 1
    /\ (last.op = "build_jff" /\ Len(states) = 0) =>
            /\ last.err = "NoInitialStateError"
            /\ last.ret.doc = NoDocument
    /\ PastPreconditions => Len(states) >= 1
    /\ (last.op = "build_jff" /\ last.err = OK) =>
            Len(last.ret.doc.states) >= 1

\* an export of an automaton with no state has been refused, while the
\* caller holds a State object that is no element of the automaton
C23_Witness ==
    /\ last.op = "build_jff"
    /\ last.err = "NoInitialStateError"
    /\ Len(states) = 0
    /\ Foreign(states, name) # {}

====
